---- MODULE Spec2Model ----
(***************************************************************************)
(* A model of script/single_cell_analysis.py, the scRNA-seq pipeline of    *)
(* scDrug.  The script is one straight-line program; the module models it  *)
(* at four levels of zoom, each with its own specification:                *)
(*                                                                         *)
(*   Spec        the whole run: argument validation, the format branch,    *)
(*               batch correction, clustering, the exports (files written) *)
(*   SpecFilter  the quality filter of lines 129-135 on a count matrix     *)
(*   SpecSearch  the automatic resolution search of lines 170-226, with    *)
(*               the worker pool of every candidate                        *)
(*   SpecGSEA    runGSEAPY, lines 6-46                                     *)
(*                                                                         *)
(* Library calls (scanpy, sklearn, gseapy, numpy.random) are modelled by   *)
(* what the script relies on; each such definition says so.                *)
(***************************************************************************)
EXTENDS Integers, Sequences, FiniteSets, TLC

VARIABLES
    \* ---- the whole run (Spec)
    args,            \* argparse namespace, line 66
    env,             \* what the file system and the input data hold
    pc,              \* position of the script
    exit_code,       \* -1 while running, else the process status
    message,         \* the text handed to sys.exit, or the uncaught exception
    files,           \* files written into args.output
    obs_columns,     \* columns of adata.obs that matter here
    stages           \* the pipeline stages run so far, in order

VARIABLES
    \* ---- the quality filter (SpecFilter)
    X,               \* the count matrix read from the input, cells x genes
    obs_names,       \* the cells of adata
    var_names,       \* the genes of adata (indices into VarNames)
    n_genes,         \* adata.obs['n_genes'], written by filter_cells
    fpc              \* position in lines 129-135

VARIABLES
    \* ---- the automatic resolution search (SpecSearch)
    link,            \* the neighbour graph of adata: strength of the link of cells x, x+1
    cpus,            \* args.cpus
    rng,             \* state of numpy's global generator
    ri,              \* loop index of line 201
    subsamples,      \* line 204
    tasks,           \* per candidate, the tasks handed to its pool
    resultList,      \* what p.map holds for the current candidate
    subsampling_n,   \* line 211, then 214
    coclustering_n,  \* line 212
    distance,        \* lines 215-216, entries num/den
    obs,             \* the label columns of adata.obs, by name
    silhouette_avg,  \* line 199
    spc              \* position in lines 194-226

VARIABLES
    \* ---- runGSEAPY (SpecGSEA)
    rank_genes_groups,  \* adata.uns['rank_genes_groups'], per cluster and rank
    celltypes,          \* line 11
    ci,                 \* position of the loop of line 12, then of line 38
    df_list,            \* line 9
    cluster_list,       \* line 10
    enrichr_calls,      \* the gene lists handed to gp.enrichr, in order
    df,                 \* line 37
    gpc                 \* position in runGSEAPY

pipeVars == <<args, env, pc, exit_code, message, files, obs_columns, stages>>

filterVars == <<X, obs_names, var_names, n_genes, fpc>>

searchVars == <<link, cpus, rng, ri, subsamples, tasks, resultList, subsampling_n,
                coclustering_n, distance, obs, silhouette_avg, spc>>

gseaVars == <<rank_genes_groups, celltypes, ci, df_list, cluster_list, enrichr_calls,
              df, gpc>>

vars == <<pipeVars, filterVars, searchVars, gseaVars>>

(***************************************************************************)
(* Command line and environment                                            *)
(***************************************************************************)

Formats == {"10x", "csv", "h5ad", "loom"}

InputExts == {".csv", ".h5ad", ""}

\* str.lower() on the characters a --GEP value is made of
LowerChar(c) ==
    CASE c = "T" -> "t"
      [] c = "R" -> "r"
      [] c = "U" -> "u"
      [] c = "E" -> "e"
      [] c = "F" -> "f"
      [] c = "A" -> "a"
      [] c = "L" -> "l"
      [] c = "S" -> "s"
      [] OTHER -> c

Lower(s) == [i \in 1..Len(s) |-> LowerChar(s[i])]

\* values given to --GEP on the command line
GEPStrings ==
    { <<"T","r","u","e">>, <<"t","r","u","e">>, <<"T","R","U","E">>,
      <<"F","a","l","s","e">>, <<"0">> }

\* line 61 without the .lower()
ParseGEP_CaseSensitive(given, s) == IF given THEN s = <<"t","r","u","e">> ELSE TRUE

\* line 61: default=True, type=lambda x: (str(x).lower() == 'true')
ParseGEP(given, s) == IF given THEN Lower(s) = <<"t","r","u","e">> ELSE TRUE

ArgSpace ==
    [ format          : Formats,
      clusters        : BOOLEAN,      \* --clusters given
      metadata        : BOOLEAN,      \* --metadata given
      batch           : BOOLEAN,      \* --batch given
      GEP_given       : BOOLEAN,
      GEP_str         : GEPStrings \cup {<<>>},
      annotation      : BOOLEAN,
      gsea            : BOOLEAN,
      auto_resolution : BOOLEAN ]

EnvSpace ==
    [ input_exists      : BOOLEAN,
      input_ext         : InputExts,
      has_matrix        : BOOLEAN,    \* matrix.mtx or matrix.mtx.gz
      has_genes         : BOOLEAN,    \* genes.tsv or genes.tsv.gz
      has_features      : BOOLEAN,    \* features.tsv or features.tsv.gz
      has_barcodes      : BOOLEAN,    \* barcodes.tsv or barcodes.tsv.gz
      output_isdir      : BOOLEAN,
      metadata_exists   : BOOLEAN,
      metadata_csv      : BOOLEAN,    \* args.metadata[-4:] == '.csv'
      batch_in_metadata : BOOLEAN,    \* args.batch in metadata_df.columns
      batch_in_obs      : BOOLEAN,    \* args.batch in the columns of the h5ad object's obs
      scmatch_ok        : BOOLEAN ]   \* the scMatch subprocess leaves its result file

\* Facts nothing reads are held at one value, so that each distinct invocation
\* is one initial state.
Relevant(a, e) ==
    /\ a.format # "10x" =>
          e.has_matrix /\ e.has_genes /\ e.has_features /\ e.has_barcodes
    /\ a.format \notin {"csv", "h5ad"} => e.input_ext = ""
    /\ a.format # "h5ad" => ~e.batch_in_obs /\ ~a.clusters
    /\ ~a.metadata => e.metadata_exists /\ e.metadata_csv /\ ~e.batch_in_metadata
    /\ ~a.batch => ~e.batch_in_metadata /\ ~e.batch_in_obs
    /\ ~a.annotation => e.scmatch_ok
    /\ a.GEP_given <=> a.GEP_str # <<>>

(***************************************************************************)
(* Lines 68-108: the checks, in the order of the code.  The result is the  *)
(* text handed to sys.exit, or "" when every check passes.                 *)
(***************************************************************************)
CheckFormat(a, e) ==
    IF a.format = "csv" THEN
        IF e.input_ext # ".csv" THEN "The input file is not a CSV file." ELSE ""
    ELSE IF a.format = "10x" THEN
        IF ~e.has_matrix THEN "Cannot find 'matrix.mtx' file in the input directory."
        ELSE IF ~e.has_genes /\ ~e.has_features
             THEN "Cannot find 'genes.tsv' or 'features.tsv' file in the input directory."
        ELSE IF ~e.has_barcodes THEN "Cannot find 'barcodes.tsv' file in the input directory."
        ELSE ""
    ELSE IF a.format = "h5ad" THEN
        IF e.input_ext # ".h5ad" THEN "The input file is not a h5ad file."
        ELSE IF ~a.clusters THEN "Need to speficy clusters to be analyzed with a h5ad file."
        ELSE ""
    ELSE "The format can only be '10x' or 'csv'."

CheckMetadata(a, e) ==
    IF a.metadata THEN
        IF ~e.metadata_exists THEN "The metadata file does not exist."
        ELSE IF ~e.metadata_csv THEN "The metadata file is not a CSV file."
        ELSE ""
    ELSE ""

CheckBatch(a, e) ==
    IF a.batch THEN
        IF ~a.metadata /\ a.format # "h5ad"
        THEN "Please provide the metadata file for batch correction with --metadata METADATA."
        ELSE IF a.metadata /\ ~e.batch_in_metadata
        THEN "The batch column is not in the metadata file."
        ELSE ""
    ELSE ""

FirstMessage(seq) ==
    LET bad == {i \in 1..Len(seq) : seq[i] # ""}
    IN  IF bad = {} THEN "" ELSE seq[CHOOSE i \in bad : \A j \in bad : i <= j]

ValidationMessage(a, e) ==
    FirstMessage(<<
        IF ~e.input_exists THEN "The input path does not exist." ELSE "",
        CheckFormat(a, e),
        IF ~e.output_isdir THEN "The output directory does not exist." ELSE "",
        CheckMetadata(a, e),
        CheckBatch(a, e) >>)

(***************************************************************************)
(* The whole run                                                           *)
(***************************************************************************)
PipeIdle ==
    /\ args = <<>>
    /\ env = <<>>
    /\ pc = "idle"
    /\ exit_code = -1
    /\ message = ""
    /\ files = {}
    /\ obs_columns = {}
    /\ stages = <<>>

InitPipe ==
    /\ args \in ArgSpace
    /\ env \in EnvSpace
    /\ Relevant(args, env)
    /\ pc = "validate"
    /\ exit_code = -1
    /\ message = ""
    /\ files = {}
    /\ obs_columns = {}
    /\ stages = <<>>

\* sys.exit(text): status 1, the text on stderr
SysExit(text) ==
    /\ pc' = "exited"
    /\ exit_code' = 1
    /\ message' = text

\* an uncaught exception: traceback, status 1
Raise(exc) ==
    /\ pc' = "crashed"
    /\ exit_code' = 1
    /\ message' = exc

\* lines 68-108
Validate ==
    /\ UNCHANGED <<filterVars, searchVars, gseaVars>>
    /\ pc = "validate"
    /\ LET msg == ValidationMessage(args, env)
       IN  IF msg # ""
           THEN SysExit(msg)
           ELSE pc' = "preprocess" /\ UNCHANGED <<exit_code, message>>
    /\ UNCHANGED <<args, env, files, obs_columns, stages>>

\* line 115: the branch the batch correction of lines 157-164 sits in
InPreprocessingBranch(a) == a.format # "h5ad"

\* lines 111-152: read the input; the h5ad branch subsets the stored object,
\* the other branch filters, normalises, scales and runs the PCA
Preprocess ==
    /\ UNCHANGED <<filterVars, searchVars, gseaVars>>
    /\ pc = "preprocess"
    /\ IF args.format = "h5ad"
       THEN /\ obs_columns' = {"louvain"} \cup (IF env.batch_in_obs THEN {"batch"} ELSE {})
            /\ stages' = stages \o <<"read", "subset">>
       ELSE /\ obs_columns' = {}
            /\ stages' = stages \o <<"read", "filter", "normalize", "pca">>
    /\ pc' = IF InPreprocessingBranch(args) THEN "batch" ELSE "neighbors"
    /\ UNCHANGED <<args, env, exit_code, message, files>>

\* lines 157-164, inside the else branch of line 122
BatchCorrection ==
    /\ UNCHANGED <<filterVars, searchVars, gseaVars>>
    /\ pc = "batch"
    /\ IF args.batch
       THEN IF ~args.metadata /\ args.format = "h5ad" /\ "batch" \notin obs_columns
            THEN /\ SysExit("The batch column is not in the Anndata object.")
                 /\ UNCHANGED <<obs_columns, stages>>
            ELSE /\ obs_columns' =
                       IF args.metadata THEN obs_columns \cup {"batch"} ELSE obs_columns
                 /\ stages' = Append(stages, "harmony")
                 /\ pc' = "neighbors"
                 /\ UNCHANGED <<exit_code, message>>
       ELSE /\ pc' = "neighbors"
            /\ UNCHANGED <<obs_columns, stages, exit_code, message>>
    /\ UNCHANGED <<args, env, files>>

\* lines 168-169
Neighbors ==
    /\ UNCHANGED <<filterVars, searchVars, gseaVars>>
    /\ pc = "neighbors"
    /\ stages' = stages \o <<"neighbors", "umap">>
    /\ pc' = "cluster"
    /\ UNCHANGED <<args, env, exit_code, message, files, obs_columns>>

\* lines 170-231: either branch leaves adata.obs['louvain']
Clustering ==
    /\ UNCHANGED <<filterVars, searchVars, gseaVars>>
    /\ pc = "cluster"
    /\ stages' = Append(stages, IF args.auto_resolution THEN "louvain_auto" ELSE "louvain")
    /\ obs_columns' = obs_columns \cup {"louvain"}
    /\ pc' = "annotate"
    /\ UNCHANGED <<args, env, exit_code, message, files>>

\* lines 237-256
Annotation ==
    /\ UNCHANGED <<filterVars, searchVars, gseaVars>>
    /\ pc = "annotate"
    /\ IF args.annotation
       THEN /\ files' = files \cup {"cluster_mean_exp.csv"}
            /\ IF env.scmatch_ok
               THEN /\ obs_columns' = obs_columns \cup {"cell_type"}
                    /\ stages' = Append(stages, "annotation")
                    /\ pc' = "plots"
                    /\ UNCHANGED <<exit_code, message>>
               ELSE /\ Raise("FileNotFoundError")
                    /\ UNCHANGED <<obs_columns, stages>>
       ELSE /\ pc' = "plots"
            /\ UNCHANGED <<files, obs_columns, stages, exit_code, message>>
    /\ UNCHANGED <<args, env>>

\* line 263
BatchPlotRequested(a) == a.batch

\* lines 258-266: sc.pl.umap(color=[c]) raises KeyError when c is no column
ExportUMAP ==
    /\ UNCHANGED <<filterVars, searchVars, gseaVars>>
    /\ pc = "plots"
    /\ IF BatchPlotRequested(args) /\ "batch" \notin obs_columns
       THEN /\ files' = files \cup {"umap_cluster.png"}
            /\ Raise("KeyError")
            /\ UNCHANGED stages
       ELSE /\ files' = files \cup {"umap_cluster.png"}
                   \cup (IF BatchPlotRequested(args) THEN {"umap_batch.png"} ELSE {})
                   \cup (IF args.annotation THEN {"umap_cell_type.png"} ELSE {})
            /\ stages' = Append(stages, "plots")
            /\ pc' = "gep"
            /\ UNCHANGED <<exit_code, message>>
    /\ UNCHANGED <<args, env, obs_columns>>

\* lines 268-279
ExportGEP ==
    /\ UNCHANGED <<filterVars, searchVars, gseaVars>>
    /\ pc = "gep"
    /\ IF ParseGEP(args.GEP_given, args.GEP_str)
       THEN files' = files \cup {"GEP.txt"} /\ stages' = Append(stages, "gep")
       ELSE UNCHANGED <<files, stages>>
    /\ pc' = "deg"
    /\ UNCHANGED <<args, env, exit_code, message, obs_columns>>

\* lines 282-292
DifferentialExpression ==
    /\ UNCHANGED <<filterVars, searchVars, gseaVars>>
    /\ pc = "deg"
    /\ files' = files \cup {"scanpyobj.h5ad", "cluster_DEGs.csv"}
    /\ stages' = Append(stages, "rank_genes_groups")
    /\ pc' = "gsea"
    /\ UNCHANGED <<args, env, exit_code, message, obs_columns>>

\* lines 294-298, then the script ends
Enrichment ==
    /\ UNCHANGED <<filterVars, searchVars, gseaVars>>
    /\ pc = "gsea"
    /\ IF args.gsea
       THEN files' = files \cup {"GSEA_results.csv"} /\ stages' = Append(stages, "gsea")
       ELSE UNCHANGED <<files, stages>>
    /\ pc' = "done"
    /\ exit_code' = 0
    /\ UNCHANGED <<args, env, message, obs_columns>>

(***************************************************************************)
(* Lines 129-135: the quality filter.  The thresholds are those of the     *)
(* code scaled down to the size of the matrices explored here: min_genes   *)
(* 200 -> 2 and min_cells 3 -> 2; the 30 percent of line 135 is kept.      *)
(***************************************************************************)
NCells == 2

min_genes == 2

min_cells == 2

max_pct_mt == 30

Counts == {0, 1, 3}

\* adata.var_names: one mitochondrial gene, one gene that only shares the
\* letters MT, and two others
VarNames ==
    << <<"M","T","-","C","O","1">>,
       <<"M","T","O","R">>,
       <<"A","C","T","B">>,
       <<"C","D","3","E">> >>

Cells == 1..NCells

Genes == 1..Len(VarNames)

\* str.startswith
StartsWith(s, prefix) ==
    Len(s) >= Len(prefix) /\ SubSeq(s, 1, Len(prefix)) = prefix

\* line 132
IsMt(g) == StartsWith(VarNames[g], <<"M","T","-">>)

RECURSIVE SumOver(_, _)
SumOver(f, S) ==
    IF S = {} THEN 0
    ELSE LET x == CHOOSE x \in S : TRUE IN f[x] + SumOver(f, S \ {x})

\* number of genes of gs detected in cell c / of cells of cs in which g is detected
GenesDetected(M, c, gs) == Cardinality({g \in gs : M[c][g] > 0})

CellsDetected(M, g, cs) == Cardinality({c \in cs : M[c][g] > 0})

\* sc.pp.calculate_qc_metrics, line 133: total_counts and the counts in mt genes
TotalCounts(M, c, gs) == SumOver([g \in gs |-> M[c][g]], gs)

MtCounts(M, c, gs) == TotalCounts(M, c, {g \in gs : IsMt(g)})

\* line 129: a cell is kept when at least min_genes genes are detected in it
KeepCell(M, c, gs) == GenesDetected(M, c, gs) >= min_genes

\* line 130 run on the matrix as read, before the cells were filtered
KeepGene_AllCells(M, g, cs) == CellsDetected(M, g, Cells) >= min_cells

\* line 130: a gene is kept when it is detected in at least min_cells cells
KeepGene(M, g, cs) == CellsDetected(M, g, cs) >= min_cells

\* line 135: pct_counts_mt < 30, with pct_counts_mt = mt / total * 100; a cell
\* without counts has pct_counts_mt NaN, and NaN < 30 is False
PassesMt(M, c, gs) ==
    /\ TotalCounts(M, c, gs) > 0
    /\ 100 * MtCounts(M, c, gs) < max_pct_mt * TotalCounts(M, c, gs)

FilterIdle ==
    /\ X = <<>>
    /\ obs_names = {}
    /\ var_names = {}
    /\ n_genes = <<>>
    /\ fpc = "idle"

InitFilter ==
    /\ X \in [Cells -> [Genes -> Counts]]
    /\ obs_names = Cells
    /\ var_names = Genes
    /\ n_genes = <<>>
    /\ fpc = "filter_cells"

\* line 129: sc.pp.filter_cells(adata, min_genes=200)
FilterCells ==
    /\ UNCHANGED <<pipeVars, searchVars, gseaVars>>
    /\ fpc = "filter_cells"
    /\ obs_names' = {c \in obs_names : KeepCell(X, c, var_names)}
    /\ n_genes' = [c \in obs_names' |-> GenesDetected(X, c, var_names)]
    /\ fpc' = "filter_genes"
    /\ UNCHANGED <<X, var_names>>

\* line 130: sc.pp.filter_genes(adata, min_cells=3)
FilterGenes ==
    /\ UNCHANGED <<pipeVars, searchVars, gseaVars>>
    /\ fpc = "filter_genes"
    /\ var_names' = {g \in var_names : KeepGene(X, g, obs_names)}
    /\ fpc' = "filter_mt"
    /\ UNCHANGED <<X, obs_names, n_genes>>

\* lines 132-135
FilterMt ==
    /\ UNCHANGED <<pipeVars, searchVars, gseaVars>>
    /\ fpc = "filter_mt"
    /\ obs_names' = {c \in obs_names : PassesMt(X, c, var_names)}
    /\ fpc' = "normalize"
    /\ UNCHANGED <<X, var_names, n_genes>>

(***************************************************************************)
(* IEEE-754 binary64 arithmetic on the values of lines 198-224.  A float   *)
(* is the natural number of its multiples of 2^-FracBits, written as its   *)
(* bits, lowest first, without high zeros (<<>> is 0.0); every value met   *)
(* here is 0 or at least 2^(Precision-1-FracBits), so it is exact in that  *)
(* unit.  The arithmetic runs on 12-bit limbs.                             *)
(***************************************************************************)
FracBits == 60

Precision == 53

Pow2 == <<1, 2, 4, 8, 16, 32, 64, 128, 256, 512, 1024, 2048>>

BitAt(b, i) == IF i >= 1 /\ i <= Len(b) THEN b[i] ELSE 0

StripHigh(b) ==
    LET ones == {i \in 1..Len(b) : b[i] = 1}
    IN  IF ones = {} THEN <<>>
        ELSE SubSeq(b, 1, CHOOSE i \in ones : \A j \in ones : j <= i)

Zeros(k) == [i \in 1..k |-> 0]

ShiftLeft(b, k) == IF b = <<>> THEN <<>> ELSE Zeros(k) \o b

ShiftRight(b, k) == IF Len(b) <= k THEN <<>> ELSE SubSeq(b, k + 1, Len(b))

\* bits <-> limbs, lowest first
ToLimbs(b) ==
    [j \in 1..((Len(b) + 11) \div 12) |->
        LET o == 12 * (j - 1)
        IN  BitAt(b, o + 1) + 2 * BitAt(b, o + 2) + 4 * BitAt(b, o + 3)
            + 8 * BitAt(b, o + 4) + 16 * BitAt(b, o + 5) + 32 * BitAt(b, o + 6)
            + 64 * BitAt(b, o + 7) + 128 * BitAt(b, o + 8) + 256 * BitAt(b, o + 9)
            + 512 * BitAt(b, o + 10) + 1024 * BitAt(b, o + 11)
            + 2048 * BitAt(b, o + 12)]

FromLimbs(l) ==
    StripHigh([i \in 1..(12 * Len(l)) |->
                  (l[((i - 1) \div 12) + 1] \div Pow2[((i - 1) % 12) + 1]) % 2])

LimbAt(l, j) == IF j <= Len(l) THEN l[j] ELSE 0

FromNat(n) == FromLimbs(<<n % 4096, (n \div 4096) % 4096, n \div 16777216>>)

ToNat(b) ==
    LET l == ToLimbs(b)
    IN  LimbAt(l, 1) + 4096 * LimbAt(l, 2) + 16777216 * LimbAt(l, 3)

\* a + b
RECURSIVE AddLimbs(_, _, _, _)
AddLimbs(a, b, j, carry) ==
    IF j > Len(a) /\ j > Len(b) THEN <<carry>>
    ELSE LET v == LimbAt(a, j) + LimbAt(b, j) + carry
         IN  <<v % 4096>> \o AddLimbs(a, b, j + 1, v \div 4096)

BigAdd(a, b) == FromLimbs(AddLimbs(ToLimbs(a), ToLimbs(b), 1, 0))

\* a - b, for a >= b
RECURSIVE SubLimbs(_, _, _, _)
SubLimbs(a, b, j, borrow) ==
    IF j > Len(a) THEN <<>>
    ELSE LET v == a[j] - LimbAt(b, j) - borrow
         IN  <<v % 4096>> \o SubLimbs(a, b, j + 1, IF v < 0 THEN 1 ELSE 0)

BigSub(a, b) == FromLimbs(SubLimbs(ToLimbs(a), ToLimbs(b), 1, 0))

\* a * k, for a small k
RECURSIVE MulLimbs(_, _, _, _)
MulLimbs(a, k, j, carry) ==
    IF j > Len(a) THEN <<carry>>
    ELSE LET v == a[j] * k + carry
         IN  <<v % 4096>> \o MulLimbs(a, k, j + 1, v \div 4096)

BigMulSmall(a, k) == FromLimbs(MulLimbs(ToLimbs(a), k, 1, 0))

\* a divided by a small d, from the high limb down: quotient and remainder
RECURSIVE DivLimbs(_, _, _, _)
DivLimbs(a, d, j, rem) ==
    IF j = 0 THEN [q |-> <<>>, r |-> rem]
    ELSE LET cur  == 4096 * rem + a[j]
             rest == DivLimbs(a, d, j - 1, cur % d)
         IN  [q |-> rest.q \o <<cur \div d>>, r |-> rest.r]

BigDivSmall(a, d) ==
    LET l   == ToLimbs(a)
        res == DivLimbs(l, d, Len(l), 0)
    IN  [q |-> FromLimbs(res.q), r |-> res.r]

BigLess(a, b) ==
    IF Len(a) # Len(b) THEN Len(a) < Len(b)
    ELSE \E i \in 1..Len(a) :
            /\ a[i] < b[i]
            /\ \A j \in (i + 1)..Len(a) : a[j] = b[j]

\* q + num/den (0 <= num < den) rounded to Precision significant bits, ties to even
RoundSig(q, num, den) ==
    LET t      == Len(q) - Precision
        keep   == ShiftRight(q, t)
        guard  == IF t = 0 THEN 2 * num >= den ELSE q[t] = 1
        sticky == IF t = 0 THEN 2 * num # den
                  ELSE num # 0 \/ \E i \in 1..(t - 1) : q[i] = 1
        odd    == keep[1] = 1
    IN  IF t < 0 THEN q
        ELSE IF guard /\ (sticky \/ odd)
             THEN ShiftLeft(BigAdd(keep, <<1>>), t)
             ELSE ShiftLeft(keep, t)

FloatOfInt(k) == ShiftLeft(FromNat(k), FracBits)

FAdd(a, b) == RoundSig(BigAdd(a, b), 0, 1)

FSub(a, b) == RoundSig(BigSub(a, b), 0, 1)

FMulInt(a, k) == RoundSig(BigMulSmall(a, k), 0, 1)

FDivInt(a, d) == LET res == BigDivSmall(a, d) IN RoundSig(res.q, res.r, d)

FLess(a, b) == BigLess(a, b)

\* the literal k/10 (0.4, 1.4), correctly rounded
Tenths(k) == FDivInt(FloatOfInt(k), 10)

\* numpy rint: to the nearest integer, ties to even
Rint(a) ==
    LET whole == ToNat(ShiftRight(a, FracBits))
        half  == BitAt(a, FracBits) = 1
        below == \E i \in 1..(FracBits - 1) : BitAt(a, i) = 1
    IN  IF half /\ (below \/ whole % 2 = 1) THEN whole + 1 ELSE whole

\* np.round(x, 1): x * 10, rint, / 10
np_round1(x) == FDivInt(FloatOfInt(Rint(FMulInt(x, 10))), 10)

\* np.linspace(start, stop, num), endpoint=True
linspace(start, stop, num) ==
    LET div   == num - 1
        delta == FSub(stop, start)
        step  == FDivInt(delta, div)
    IN  [i \in 1..num |->
            IF i = num THEN stop ELSE FAdd(FMulInt(step, i - 1), start)]

\* str(x) of a float64 is the shortest decimal that reads back as x: the
\* one-decimal text of k/10 when x is the float of k/10, a longer text otherwise
StrFloat(x) ==
    LET k == Rint(FMulInt(x, 10))
    IN  IF Tenths(k) = x
        THEN [whole |-> k \div 10, tenth |-> k % 10, more |-> <<>>]
        ELSE [whole |-> k \div 10, tenth |-> k % 10, more |-> x]

(***************************************************************************)
(* Lines 170-226: the automatic resolution search                          *)
(***************************************************************************)
sample_n == 4

MaxCpus == 2

rep_n == 5

num_resolutions == 6

seed == 1

\* line 197: int(sample_n * 0.8)
subsample_n == (sample_n * 8) \div 10

SearchCells == 0..(sample_n - 1)

Candidates == 0..(num_resolutions - 1)

Repeats == 1..rep_n

\* link strengths of the neighbour graph, and the states numpy's generator may
\* hold before it is seeded
Strengths == {0, 1, 2}

Entropy == {7, 23}

SilhouetteValues == {0, 1}

\* line 198, with the spacing of np.arange(0.4, 1.5, 0.2)
resolutions_arange ==
    [i \in 1..num_resolutions |-> FAdd(FMulInt(Tenths(2), i - 1), Tenths(4))]

\* line 198
resolutions == linspace(Tenths(4), Tenths(14), num_resolutions)

\* line 202, for each ri
rounded == [c \in Candidates |-> np_round1(resolutions[c + 1])]

\* 'louvain_r' + str(r), lines 218-219 and 224
Column(x) == [name |-> "louvain_r", suffix |-> StrFloat(x)]

LouvainColumn == [name |-> "louvain", suffix |-> [whole |-> 0, tenth |-> 0, more |-> <<>>]]

written_key == [c \in Candidates |-> Column(rounded[c])]

read_key == [c \in Candidates |-> Column(resolutions[c + 1])]

\* numpy's generator is a deterministic function of its state (MT19937 in
\* numpy); a small linear congruential generator stands for it

\* line 200 left out: the generator keeps the state it had
np_random_seed_ignored(state, value) == state

\* line 200: np.random.seed sets the state from the seed alone
np_random_seed(state, value) == value % 101

rk_next(s) == (37 * s + 11) % 101

\* np.random.permutation: Fisher-Yates, positions i = n-1 .. 1, j drawn in 0..i
RECURSIVE Shuffle(_, _, _)
Shuffle(x, i, s) ==
    IF i = 0 THEN [perm |-> x, state |-> s]
    ELSE LET s2 == rk_next(s)
             j  == s2 % (i + 1)
         IN  Shuffle([p \in DOMAIN x |->
                        IF p = i + 1 THEN x[j + 1]
                        ELSE IF p = j + 1 THEN x[i + 1] ELSE x[p]],
                     i - 1, s2)

\* np.random.choice(n, k, replace=False): the first k of a permutation
np_random_choice(s, n, k) ==
    LET sh == Shuffle([p \in 1..n |-> p - 1], n - 1, s)
    IN  [sample |-> SubSeq(sh.perm, 1, k), state |-> sh.state]

\* line 204: [np.random.choice(...) for t in range(rep_n)]
RECURSIVE DrawSubsamples(_, _)
DrawSubsamples(s, count) ==
    IF count = 0 THEN [subs |-> <<>>, state |-> s]
    ELSE LET d    == np_random_choice(s, sample_n, subsample_n)
             rest == DrawSubsamples(d.state, count - 1)
         IN  [subs |-> <<d.sample>> \o rest.subs, state |-> rest.state]

Range(f) == {f[i] : i \in DOMAIN f}

\* sc.tl.louvain on the cells of `cellseq` (random_state 0: a function of the
\* graph, the cells and the resolution).  The graph is the chain of `link`;
\* two linked cells stay together when the resolution is below the strength
\* of their link, so a higher resolution gives finer clusters.  The labels are
\* the ranks of the clusters, largest first, as scanpy names them.
Louvain(graph, cellseq, resolution) ==
    LET S       == Range(cellseq)
        joined  == {e \in 0..(sample_n - 2) :
                       /\ e \in S /\ (e + 1) \in S
                       /\ FLess(resolution, FloatOfInt(graph[e]))}
        root    == [c \in S |->
                       CHOOSE d \in 0..c :
                          /\ \A e \in d..(c - 1) : e \in joined
                          /\ (d - 1) \notin joined]
        size    == [d \in S |-> Cardinality({c \in S : root[c] = d})]
        before  == [d \in S |->
                       {b \in S : /\ root[b] = b
                                  /\ \/ size[b] > size[d]
                                     \/ size[b] = size[d] /\ b < d}]
    IN  [i \in 1..Len(cellseq) |-> Cardinality(before[root[cellseq[i]]])]

AllCells == [i \in 1..sample_n |-> i - 1]

\* lines 177-192 with the pair recorded as co-occurring only when co-clustered
\* and as co-clustered always
subsample_clustering_swapped(graph, n, k, resolution, subsample) ==
    LET cluster == Louvain(graph, subsample, resolution)
    IN  [ sub  |-> [x \in 0..(n - 1) |-> [y \in 0..(n - 1) |->
                      \E i, j \in 1..k :
                         subsample[i] = x /\ subsample[j] = y /\ cluster[i] = cluster[j]]],
          cocl |-> [x \in 0..(n - 1) |-> [y \in 0..(n - 1) |->
                      \E i, j \in 1..k : subsample[i] = x /\ subsample[j] = y]] ]

\* lines 177-192
subsample_clustering(graph, n, k, resolution, subsample) ==
    LET cluster == Louvain(graph, subsample, resolution)
    IN  [ sub  |-> [x \in 0..(n - 1) |-> [y \in 0..(n - 1) |->
                      \E i, j \in 1..k : subsample[i] = x /\ subsample[j] = y]],
          cocl |-> [x \in 0..(n - 1) |-> [y \in 0..(n - 1) |->
                      \E i, j \in 1..k :
                         subsample[i] = x /\ subsample[j] = y /\ cluster[i] = cluster[j]]] ]

NoTask == [state |-> "none", subsample |-> <<>>, resolution |-> <<>>]

NoResult == [sub |-> <<>>, cocl |-> <<>>]

ZeroMatrix == [x \in SearchCells |-> [y \in SearchCells |-> 0]]

\* sum(...) of lines 211-212 over the results p.map returned: booleans add as 0/1
RECURSIVE SumResults(_, _, _)
SumResults(results, field, t) ==
    IF t = 0 THEN ZeroMatrix
    ELSE LET rest == SumResults(results, field, t - 1)
         IN  IF results[t] = NoResult THEN rest
             ELSE [x \in SearchCells |-> [y \in SearchCells |->
                     rest[x][y] + (IF results[t][field][x][y] THEN 1 ELSE 0)]]

\* lines 207-209 returning at the first result delivered
MapReady_Any(pool) == \E t \in Repeats : pool[t].state = "done"

\* lines 207-209: p.map returns when every task of the pool has delivered its
\* result
MapReady(pool) == \A t \in Repeats : pool[t].state = "done"

\* line 223: np.argmax gives the first index of the maximum
ArgMax(scores) ==
    CHOOSE i \in 1..Len(scores) :
        /\ \A j \in 1..Len(scores) : scores[j] <= scores[i]
        /\ \A j \in 1..(i - 1) : scores[j] < scores[i]

SearchIdle ==
    /\ link = <<>>
    /\ cpus = 0
    /\ rng = 0
    /\ ri = 0
    /\ subsamples = <<>>
    /\ tasks = <<>>
    /\ resultList = <<>>
    /\ subsampling_n = <<>>
    /\ coclustering_n = <<>>
    /\ distance = <<>>
    /\ obs = <<>>
    /\ silhouette_avg = <<>>
    /\ spc = "idle"

InitSearch ==
    /\ link \in [0..(sample_n - 2) -> Strengths]
    /\ cpus \in 1..MaxCpus
    /\ rng \in Entropy
    /\ ri = 0
    /\ subsamples = <<>>
    /\ tasks = [c \in Candidates |-> [t \in Repeats |-> NoTask]]
    /\ resultList = <<>>
    /\ subsampling_n = <<>>
    /\ coclustering_n = <<>>
    /\ distance = <<>>
    /\ obs = <<>>
    /\ silhouette_avg = <<>>
    /\ spc = "seed"

\* lines 194-200
Seed ==
    /\ UNCHANGED <<pipeVars, filterVars, gseaVars>>
    /\ spc = "seed"
    /\ silhouette_avg' = [i \in 1..num_resolutions |-> 0]
    /\ rng' = np_random_seed(rng, seed)
    /\ spc' = "draw"
    /\ UNCHANGED <<link, cpus, ri, subsamples, tasks, resultList, subsampling_n,
                   coclustering_n, distance, obs>>

\* lines 202-207: draw the subsamples, open the pool, hand it the tasks
Dispatch ==
    /\ UNCHANGED <<pipeVars, filterVars, gseaVars>>
    /\ spc = "draw"
    /\ LET d == DrawSubsamples(rng, rep_n)
       IN  /\ subsamples' = d.subs
           /\ rng' = d.state
           /\ tasks' = [tasks EXCEPT ![ri] =
                          [t \in Repeats |->
                              [state |-> "queued", subsample |-> d.subs[t],
                               resolution |-> rounded[ri]]]]
    /\ resultList' = [t \in Repeats |-> NoResult]
    /\ spc' = "map"
    /\ UNCHANGED <<link, cpus, ri, subsampling_n, coclustering_n, distance, obs,
                   silhouette_avg>>

\* a free worker of candidate c's pool takes the next task of its queue
WorkerStart(c) ==
    /\ UNCHANGED <<pipeVars, filterVars, gseaVars>>
    /\ \E t \in Repeats : tasks[c][t].state = "queued"
    /\ Cardinality({t \in Repeats : tasks[c][t].state = "running"}) < cpus
    /\ LET t == CHOOSE t \in Repeats :
                   /\ tasks[c][t].state = "queued"
                   /\ \A u \in 1..(t - 1) : tasks[c][u].state # "queued"
       IN  tasks' = [tasks EXCEPT ![c][t].state = "running"]
    /\ UNCHANGED <<link, cpus, rng, ri, subsamples, resultList, subsampling_n,
                   coclustering_n, distance, obs, silhouette_avg, spc>>

\* a worker returns from subsample_clustering; the pool files the result
\* under the task's position
WorkerFinish(c, t) ==
    /\ UNCHANGED <<pipeVars, filterVars, gseaVars>>
    /\ tasks[c][t].state = "running"
    /\ tasks' = [tasks EXCEPT ![c][t].state = "done"]
    /\ resultList' =
          IF c = ri /\ spc = "map"
          THEN [resultList EXCEPT ![t] =
                   subsample_clustering(link, sample_n, subsample_n,
                                        tasks[c][t].resolution, tasks[c][t].subsample)]
          ELSE resultList
    /\ UNCHANGED <<link, cpus, rng, ri, subsamples, subsampling_n, coclustering_n,
                   distance, obs, silhouette_avg, spc>>

\* lines 207-212: p.map returns, close, join, the two sums
Join ==
    /\ UNCHANGED <<pipeVars, filterVars, gseaVars>>
    /\ spc = "map"
    /\ MapReady(tasks[ri])
    /\ subsampling_n' = SumResults(resultList, "sub", rep_n)
    /\ coclustering_n' = SumResults(resultList, "cocl", rep_n)
    /\ spc' = "summed"
    /\ UNCHANGED <<link, cpus, rng, ri, subsamples, tasks, resultList, distance, obs,
                   silhouette_avg>>

\* lines 214-216; a quotient by 0 (nan) keeps its denominator 0
Distance ==
    /\ UNCHANGED <<pipeVars, filterVars, gseaVars>>
    /\ spc = "summed"
    /\ subsampling_n' = [x \in SearchCells |-> [y \in SearchCells |->
                            IF subsampling_n[x][y] = 0 THEN 1000000
                            ELSE subsampling_n[x][y]]]
    /\ distance' = [x \in SearchCells |-> [y \in SearchCells |->
                      IF x = y THEN [num |-> 0, den |-> 1]
                      ELSE [num |-> subsampling_n'[x][y] - coclustering_n[x][y],
                            den |-> subsampling_n'[x][y]]]]
    /\ spc' = "distance"
    /\ UNCHANGED <<link, cpus, rng, ri, subsamples, tasks, resultList, coclustering_n,
                   obs, silhouette_avg>>

SetColumn(table, key, labels) ==
    [k \in DOMAIN table \cup {key} |-> IF k = key THEN labels ELSE table[k]]

\* lines 218-221: cluster the full data, score it.  silhouette_score raises
\* ValueError unless 2 <= number of labels <= n_samples - 1; its value is a
\* function of the distances and the labels that the model leaves open
Score ==
    /\ UNCHANGED <<pipeVars, filterVars, gseaVars>>
    /\ spc = "distance"
    /\ LET labels == Louvain(link, AllCells, rounded[ri])
           n_labels == Cardinality(Range(labels))
       IN  /\ obs' = SetColumn(obs, Column(rounded[ri]), labels)
           /\ IF 1 < n_labels /\ n_labels < sample_n
              THEN /\ \E score \in SilhouetteValues :
                         silhouette_avg' = [silhouette_avg EXCEPT ![ri + 1] = score]
                   /\ IF ri + 1 < num_resolutions
                      THEN ri' = ri + 1 /\ spc' = "draw"
                      ELSE ri' = ri /\ spc' = "select"
              ELSE /\ spc' = "ValueError"
                   /\ UNCHANGED <<ri, silhouette_avg>>
    /\ UNCHANGED <<link, cpus, rng, subsamples, tasks, resultList, subsampling_n,
                   coclustering_n, distance>>

\* lines 223-225
Select ==
    /\ UNCHANGED <<pipeVars, filterVars, gseaVars>>
    /\ spc = "select"
    /\ LET best == ArgMax(silhouette_avg)
           key  == Column(resolutions[best])
       IN  IF key \in DOMAIN obs
           THEN obs' = SetColumn(obs, LouvainColumn, obs[key]) /\ spc' = "clustered"
           ELSE obs' = obs /\ spc' = "KeyError"
    /\ UNCHANGED <<link, cpus, rng, ri, subsamples, tasks, resultList, subsampling_n,
                   coclustering_n, distance, silhouette_avg>>

(***************************************************************************)
(* Lines 6-46: runGSEAPY.  P-values are counted in thousandths.            *)
(***************************************************************************)
NClusters == 2

logfc_threshold == 2

marker_p == 10

cutoff == 50

\* the ranked genes of a cluster: name and statistics of each rank
GeneNames == {"CD3E", "MS4A1"}

GeneStats ==
    { [logfoldchanges |-> 2, pvals_adj |-> 10, pvals |-> 10],
      [logfoldchanges |-> 1, pvals_adj |-> 10, pvals |-> 10],
      [logfoldchanges |-> 2, pvals_adj |-> 11, pvals |-> 10],
      [logfoldchanges |-> 3, pvals_adj |-> 11, pvals |-> 11] }

\* enr.res2d: the terms the service returns, each with its adjusted p-value
EnrichrTables ==
    { <<>>,
      << [Term |-> "GO:1", adjp |-> 50] >>,
      << [Term |-> "GO:1", adjp |-> 51] >>,
      << [Term |-> "GO:1", adjp |-> 51], [Term |-> "GO:2", adjp |-> 49] >> }

\* lines 13-18
IsMarker(g) ==
    /\ g.logfoldchanges >= logfc_threshold
    /\ g.pvals_adj <= marker_p
    /\ g.pvals <= marker_p

\* lines 20-21
Degs(ranking) == {name \in DOMAIN ranking : IsMarker(ranking[name])}

\* line 39, comparing with 1.0 instead of the cutoff
RowKept_All(row, cut) == row.adjp <= 1000

\* line 39
RowKept(row, cut) == row.adjp <= cut

KeptRows(seq, cut) ==
    LET keep == {i \in 1..Len(seq) : RowKept(seq[i], cut)}
        idx(k) == CHOOSE i \in keep : Cardinality({j \in keep : j < i}) = k - 1
    IN  [k \in 1..Cardinality(keep) |-> seq[idx(k)]]

GseaIdle ==
    /\ rank_genes_groups = <<>>
    /\ celltypes = <<>>
    /\ ci = 0
    /\ df_list = <<>>
    /\ cluster_list = <<>>
    /\ enrichr_calls = <<>>
    /\ df = <<>>
    /\ gpc = "idle"

InitGsea ==
    /\ celltypes = [i \in 1..NClusters |-> i - 1]
    /\ rank_genes_groups \in [0..(NClusters - 1) -> [GeneNames -> GeneStats]]
    /\ ci = 1
    /\ df_list = <<>>
    /\ cluster_list = <<>>
    /\ enrichr_calls = <<>>
    /\ df = <<>>
    /\ gpc = "markers"

\* lines 12-33, one cluster
GseaMarkers ==
    /\ UNCHANGED <<pipeVars, filterVars, searchVars>>
    /\ gpc = "markers"
    /\ ci <= Len(celltypes)
    /\ LET celltype == celltypes[ci]
           degs     == Degs(rank_genes_groups[celltype])
       IN  IF degs = {}
           THEN UNCHANGED <<df_list, cluster_list, enrichr_calls>>
           ELSE \E res2d \in EnrichrTables :
                   /\ enrichr_calls' =
                         Append(enrichr_calls, [description |-> celltype, gene_list |-> degs])
                   /\ df_list' = Append(df_list, res2d)
                   /\ cluster_list' = Append(cluster_list, celltype)
    /\ ci' = ci + 1
    /\ UNCHANGED <<rank_genes_groups, celltypes, df, gpc>>

\* lines 35-37
GseaFrame ==
    /\ UNCHANGED <<pipeVars, filterVars, searchVars>>
    /\ gpc = "markers"
    /\ ci > Len(celltypes)
    /\ df' = <<>>
    /\ ci' = 1
    /\ gpc' = "collect"
    /\ UNCHANGED <<rank_genes_groups, celltypes, df_list, cluster_list, enrichr_calls>>

\* lines 38-44, one submitted cluster
GseaCollect ==
    /\ UNCHANGED <<pipeVars, filterVars, searchVars>>
    /\ gpc = "collect"
    /\ ci <= Len(cluster_list)
    /\ LET kept == KeptRows(df_list[ci], cutoff)
           rows == [k \in 1..Len(kept) |->
                      [Cluster |-> cluster_list[ci], Term |-> kept[k].Term,
                       adjp |-> kept[k].adjp]]
       IN  df' = IF Len(rows) > 0 THEN df \o rows ELSE df
    /\ ci' = ci + 1
    /\ UNCHANGED <<rank_genes_groups, celltypes, df_list, cluster_list, enrichr_calls, gpc>>

\* line 46
GseaReturn ==
    /\ UNCHANGED <<pipeVars, filterVars, searchVars>>
    /\ gpc = "collect"
    /\ ci > Len(cluster_list)
    /\ gpc' = "returned"
    /\ UNCHANGED <<rank_genes_groups, celltypes, ci, df_list, cluster_list,
                   enrichr_calls, df>>

(***************************************************************************)
(* The specifications                                                      *)
(***************************************************************************)
Init == InitPipe /\ FilterIdle /\ SearchIdle /\ GseaIdle

Next ==
    \/ Validate
    \/ Preprocess
    \/ BatchCorrection
    \/ Neighbors
    \/ Clustering
    \/ Annotation
    \/ ExportUMAP
    \/ ExportGEP
    \/ DifferentialExpression
    \/ Enrichment

Spec == Init /\ [][Next]_vars

InitF == InitFilter /\ PipeIdle /\ SearchIdle /\ GseaIdle

NextFilter ==
    \/ FilterCells
    \/ FilterGenes
    \/ FilterMt

SpecFilter == InitF /\ [][NextFilter]_vars

InitS == InitSearch /\ PipeIdle /\ FilterIdle /\ GseaIdle

NextSearch ==
    \/ Seed
    \/ Dispatch
    \/ \E c \in Candidates : WorkerStart(c)
    \/ \E c \in Candidates, t \in Repeats : WorkerFinish(c, t)
    \/ Join
    \/ Distance
    \/ Score
    \/ Select

SpecSearch == InitS /\ [][NextSearch]_vars

InitG == InitGsea /\ PipeIdle /\ FilterIdle /\ SearchIdle

NextGSEA ==
    \/ GseaMarkers
    \/ GseaFrame
    \/ GseaCollect
    \/ GseaReturn

SpecGSEA == InitG /\ [][NextGSEA]_vars

(***************************************************************************)
(* Properties of the whole run (Spec)                                      *)
(***************************************************************************)

\* the validation conditions of the run, as the documentation lists them
ValidationConditionFails ==
    \/ ~env.input_exists
    \/ args.format = "csv" /\ env.input_ext # ".csv"
    \/ args.format = "h5ad" /\ env.input_ext # ".h5ad"
    \/ args.format = "10x" /\
          (~env.has_matrix \/ (~env.has_genes /\ ~env.has_features) \/ ~env.has_barcodes)
    \/ args.format \notin {"10x", "csv", "h5ad"}
    \/ args.format = "h5ad" /\ ~args.clusters
    \/ ~env.output_isdir
    \/ args.metadata /\ (~env.metadata_exists \/ ~env.metadata_csv)
    \/ args.batch /\ ~args.metadata /\ args.format # "h5ad"
    \/ args.batch /\ args.metadata /\ ~env.batch_in_metadata
    \/ args.batch /\ ~args.metadata /\ args.format = "h5ad" /\ ~env.batch_in_obs

\* C1: when a validation condition fails, the process ends with a message and
\* a non-zero status before any pipeline stage has run and without any output
\* file written.
C1_ValidationFailureStopsTheRun ==
    ValidationConditionFails =>
        /\ pc \in {"validate", "exited"}
        /\ stages = <<>>
        /\ files = {}
        /\ pc = "exited" => (exit_code # 0 /\ message # "")

\* an h5ad run with --batch, no --metadata and no such column in obs has
\* written the cluster plot and then failed on the batch plot
C1_LateFailure ==
    /\ args.format = "h5ad" /\ args.batch /\ ~args.metadata /\ ~env.batch_in_obs
    /\ pc = "crashed"
    /\ message = "KeyError"
    /\ "umap_cluster.png" \in files

BatchColumnNowhere ==
    /\ args.batch
    /\ ~(args.metadata /\ env.batch_in_metadata)
    /\ ~env.batch_in_obs

\* C2: a run whose batch column is neither in the metadata file nor in the
\* observations of the loaded object never reaches the neighbour graph, the
\* clustering or the plot export, and does not complete.
C2_MissingBatchColumnStopsTheRun ==
    BatchColumnNowhere =>
        /\ pc \notin {"cluster", "annotate", "plots", "gep", "deg", "gsea", "done"}
        /\ \A i \in 1..Len(stages) :
              stages[i] \notin {"neighbors", "umap", "louvain", "louvain_auto", "plots"}

\* the files the flags ask for
GEPToggleOn ==
    ~args.GEP_given \/
    args.GEP_str \in {<<"t","r","u","e">>, <<"T","r","u","e">>, <<"T","R","U","E">>}

ExpectedFiles ==
    {"scanpyobj.h5ad", "cluster_DEGs.csv", "umap_cluster.png"}
        \cup (IF GEPToggleOn THEN {"GEP.txt"} ELSE {})
        \cup (IF args.gsea THEN {"GSEA_results.csv"} ELSE {})
        \cup (IF args.annotation THEN {"cluster_mean_exp.csv", "umap_cell_type.png"} ELSE {})
        \cup (IF args.batch THEN {"umap_batch.png"} ELSE {})

\* C7: a run that completes has written exactly the files its flags ask for:
\* the object, cluster_DEGs.csv and the cluster plot always, GEP.txt iff the
\* GEP toggle is on (its default), GSEA_results.csv iff --gsea, the mean
\* expression table and the cell type plot iff --annotation, the batch plot
\* iff --batch.
C7_OutputsDeterminedByFlags ==
    pc = "done" => (exit_code = 0 /\ files = ExpectedFiles)

\* a completed run with the default toggles (GEP on, no enrichment) and a
\* batch column
C7_Witness ==
    /\ pc = "done"
    /\ ~args.GEP_given /\ ~args.gsea /\ args.batch /\ args.annotation
    /\ "GEP.txt" \in files /\ "GSEA_results.csv" \notin files

\* C8: whenever a batch column is supplied and the run gets as far as the
\* neighbour graph, batch correction has been applied before it.
C8_BatchCorrectionBeforeNeighbors ==
    \A i \in 1..Len(stages) :
        (args.batch /\ stages[i] = "neighbors") =>
            \E j \in 1..(i - 1) : stages[j] = "harmony"

(***************************************************************************)
(* Properties of the quality filter (SpecFilter)                           *)
(***************************************************************************)

\* C3 as claimed: in the matrix handed to normalisation every cell has at
\* least min_genes detected genes and a mitochondrial fraction below 30
\* percent, and every gene is detected in at least min_cells of its cells.
C3_FilteredMatrixMeetsThresholds ==
    fpc = "normalize" =>
        /\ \A c \in obs_names :
              /\ Cardinality({g \in var_names : X[c][g] > 0}) >= min_genes
              /\ 100 * MtCounts(X, c, var_names) < 30 * TotalCounts(X, c, var_names)
        /\ \A g \in var_names :
              Cardinality({c \in obs_names : X[c][g] > 0}) >= min_cells

\* the cells that pass line 129
PassedMinGenes == {c \in Cells : Cardinality({g \in Genes : X[c][g] > 0}) >= min_genes}

\* C3 as amended: every retained cell has at least min_genes detected genes in
\* the matrix as read and a mitochondrial fraction below 30 percent over the
\* retained genes, and every retained gene is detected in at least min_cells
\* of the cells that passed the min_genes filter.
C3_FilterThresholdsAsApplied ==
    fpc = "normalize" =>
        /\ \A c \in obs_names :
              /\ c \in PassedMinGenes
              /\ n_genes[c] >= min_genes
              /\ TotalCounts(X, c, var_names) > 0
              /\ 100 * MtCounts(X, c, var_names) < 30 * TotalCounts(X, c, var_names)
        /\ \A g \in var_names :
              Cardinality({c \in PassedMinGenes : X[c][g] > 0}) >= min_cells

\* the filter has run, has dropped a cell for its mitochondrial fraction and a
\* gene for its cell count, and has kept a cell and a gene
C3_Witness ==
    /\ fpc = "normalize"
    /\ obs_names # {} /\ var_names # {}
    /\ PassedMinGenes \ obs_names # {}
    /\ var_names # Genes

(***************************************************************************)
(* Properties of the automatic resolution search (SpecSearch)              *)
(***************************************************************************)

\* the first candidate with the highest score
FirstBest ==
    CHOOSE c \in Candidates :
        /\ \A d \in Candidates : silhouette_avg[d + 1] <= silhouette_avg[c + 1]
        /\ \A d \in 0..(c - 1) : silhouette_avg[d + 1] < silhouette_avg[c + 1]

\* C4: the key under which a candidate's labels are read back is the key under
\* which they were written, for each of the six candidates; the search never
\* fails to find the winner's column, and the final 'louvain' labels are the
\* labels stored for the first candidate with the highest score.
C4_WinnerLabelsSelected ==
    /\ \A c \in Candidates : read_key[c] = written_key[c]
    /\ spc # "KeyError"
    /\ spc = "clustered" =>
          /\ written_key[FirstBest] \in DOMAIN obs
          /\ obs[LouvainColumn] = obs[written_key[FirstBest]]
          /\ obs[LouvainColumn] = Louvain(link, AllCells, rounded[FirstBest])

\* the search has selected 0.6, tied with 1.2
C4_Witness ==
    /\ spc = "clustered"
    /\ silhouette_avg = <<0, 1, 0, 0, 1, 0>>

\* the generator's state after the seed and c candidates' draws, and the
\* subsamples every run draws for candidate c
RECURSIVE SeededStateAt(_)
SeededStateAt(c) ==
    IF c = 0 THEN seed % 101
    ELSE DrawSubsamples(SeededStateAt(c - 1), rep_n).state

ExpectedSubsamples == [c \in Candidates |-> DrawSubsamples(SeededStateAt(c), rep_n).subs]

Together(c, t, x, y) ==
    /\ x \in Range(ExpectedSubsamples[c][t])
    /\ y \in Range(ExpectedSubsamples[c][t])

SameCluster(c, t, x, y) ==
    LET sub    == ExpectedSubsamples[c][t]
        labels == Louvain(link, sub, rounded[c])
    IN  \E i, j \in 1..Len(sub) : sub[i] = x /\ sub[j] = y /\ labels[i] = labels[j]

ExpectedCooccurrence(c) ==
    [x \in SearchCells |-> [y \in SearchCells |->
        Cardinality({t \in Repeats : Together(c, t, x, y)})]]

ExpectedCoclustering(c) ==
    [x \in SearchCells |-> [y \in SearchCells |->
        Cardinality({t \in Repeats : Together(c, t, x, y) /\ SameCluster(c, t, x, y)})]]

TasksIn(c, states) == {t \in Repeats : tasks[c][t].state \in states}

\* C9: a task is queued or running only for the current candidate and only
\* while the main process waits in p.map; the sums are taken and the candidate
\* is scored only with all five of its tasks finished and their results
\* collected; earlier candidates are finished and scored, later ones have no
\* task yet.
C9_NoOverlapBetweenCandidates ==
    /\ \A c \in Candidates :
          /\ TasksIn(c, {"queued", "running"}) # {} => (c = ri /\ spc = "map")
          /\ c < ri => (TasksIn(c, {"done"}) = Repeats /\ written_key[c] \in DOMAIN obs)
          /\ c > ri => TasksIn(c, {"none"}) = Repeats
    /\ spc = "map" => TasksIn(ri, {"none"}) = {}
    /\ spc \in {"summed", "distance", "select", "clustered"} =>
          /\ TasksIn(ri, {"done"}) = Repeats
          /\ \A t \in Repeats : resultList[t] # NoResult

\* the second candidate is summed after a pool of two workers ran its tasks
C9_Witness ==
    /\ spc = "summed"
    /\ ri = 1
    /\ cpus = 2

NeverTogether(x, y) ==
    \A t \in Repeats : ~(x \in Range(subsamples[t]) /\ y \in Range(subsamples[t]))

\* C10: after the five repeats co-clustering <= co-occurrence <= 5 and both
\* matrices are symmetric; the distance is 1 - co-clustering / co-occurrence,
\* in [0, 1], for the pairs that co-occurred, 1 for the pairs that never did,
\* and 0 on the diagonal.
C10_MatricesAndDistance ==
    /\ spc = "summed" =>
          \A x, y \in SearchCells :
             /\ 0 <= coclustering_n[x][y]
             /\ coclustering_n[x][y] <= subsampling_n[x][y]
             /\ subsampling_n[x][y] <= rep_n
             /\ subsampling_n[x][y] = subsampling_n[y][x]
             /\ coclustering_n[x][y] = coclustering_n[y][x]
             /\ (subsampling_n[x][y] = 0) = NeverTogether(x, y)
    /\ spc = "distance" =>
          \A x, y \in SearchCells :
             /\ distance[x][y].den > 0
             /\ 0 <= distance[x][y].num
             /\ distance[x][y].num <= distance[x][y].den
             /\ x = y => distance[x][y].num = 0
             /\ (x # y /\ NeverTogether(x, y)) => distance[x][y].num = distance[x][y].den
             /\ (x # y /\ ~NeverTogether(x, y)) =>
                   /\ distance[x][y].den <= rep_n
                   /\ distance[x][y].den - distance[x][y].num = coclustering_n[x][y]

\* the distances of a candidate with a pair that never co-occurred, a pair that
\* always co-clustered and a pair that co-occurred without ever co-clustering
C10_Witness ==
    /\ spc = "distance"
    /\ \E x, y \in SearchCells : x # y /\ NeverTogether(x, y)
    /\ \E x, y \in SearchCells : x # y /\ distance[x][y].num = 0
    /\ \E x, y \in SearchCells :
          x # y /\ ~NeverTogether(x, y) /\ distance[x][y].num = distance[x][y].den

(***************************************************************************)
(* Properties of runGSEAPY (SpecGSEA)                                      *)
(***************************************************************************)

\* the marker set of a cluster: log fold change >= 2, adjusted p and p <= 0.01
MarkerSet(c) ==
    {name \in GeneNames :
        /\ rank_genes_groups[c][name].logfoldchanges >= 2
        /\ rank_genes_groups[c][name].pvals_adj <= 10
        /\ rank_genes_groups[c][name].pvals <= 10}

RowsOf(c) == {k \in 1..Len(df) : df[k].Cluster = c}

\* C6: the table never holds a row above the cutoff; a cluster with an empty
\* marker set is never submitted and has no row; a submitted cluster without a
\* term at or below the cutoff has no row.
C6_NoRowAboveCutoff ==
    /\ \A k \in 1..Len(df) : df[k].adjp <= 50
    /\ \A k \in 1..Len(enrichr_calls) :
          /\ MarkerSet(enrichr_calls[k].description) # {}
          /\ enrichr_calls[k].gene_list = MarkerSet(enrichr_calls[k].description)
    /\ \A c \in 0..(NClusters - 1) : MarkerSet(c) = {} => RowsOf(c) = {}
    /\ \A k \in 1..Len(cluster_list) :
          (\A i \in 1..Len(df_list[k]) : df_list[k][i].adjp > 50) =>
              RowsOf(cluster_list[k]) = {}
    /\ gpc = "returned" =>
          \A k \in 1..Len(cluster_list) :
             \A i \in 1..Len(df_list[k]) :
                df_list[k][i].adjp <= 50 =>
                   \E j \in RowsOf(cluster_list[k]) : df[j].Term = df_list[k][i].Term

\* returned: one cluster skipped for its empty marker set, one submitted whose
\* result lost a row to the cutoff and kept another
C6_Witness ==
    /\ gpc = "returned"
    /\ \E c \in 0..(NClusters - 1) : MarkerSet(c) = {}
    /\ Len(df) > 0
    /\ \E k \in 1..Len(df_list) : Len(df_list[k]) > Cardinality(RowsOf(cluster_list[k]))

====
